---- MODULE Spec2Model ----
(***************************************************************************)
(* Model of src/app.py: the two request handlers generate_itinerary and    *)
(* update_itinerary, the helpers they call, and the external completion    *)
(* and image providers.  One request is in progress at a time; a handler   *)
(* is suspended at every external call, and the provider's answer is a     *)
(* nondeterministic choice.                                                *)
(*                                                                         *)
(* JSON / Python values are tagged records, so that a Python list, dict,   *)
(* str, int and None stay distinct:                                        *)
(*   None, PyInt(i), PyStr(s), PyList(seq), PyDict(dict).                  *)
(* A Python dict is a TLA+ function whose DOMAIN is the set of its keys.   *)
(***************************************************************************)
EXTENDS Integers, Sequences, FiniteSets, TLC

VARIABLES
    pc,                 \* position of the request in progress
    handler,            \* "none", "generate" or "update"
    data,               \* request.get_json() of the request in progress
    first_destination,  \* local of generate_itinerary (line 167)
    trip_details,       \* local of generate_itinerary (lines 171-184)
    current_itinerary,  \* the document being built (generate) or mutated (update)
    call,               \* the external call the handler is suspended at
    log,                \* external calls of this request that have returned
    resp,               \* the response of the last finished request
    chain               \* number of updates fed the previous response, in a row

vars == <<pc, handler, data, first_destination, trip_details,
          current_itinerary, call, log, resp, chain>>

----------------------------------------------------------------------------
(* Bounds *)

\* longest run of updates each fed the response before it
MaxChain == 2
\* largest integer a numeric string of a request may denote
MaxParse == 5

(* Program constants *)
DefaultDays == 5
DefaultGroupSize == 2

----------------------------------------------------------------------------
(* Values *)

None == [t |-> "none"]
PyInt(i) == [t |-> "int", i |-> i]
PyStr(s) == [t |-> "str", s |-> s]
PyList(l) == [t |-> "list", l |-> l]
PyDict(f) == [t |-> "obj", f |-> f]

EmptyDict == <<>>

\* dict.get(key, default)
Get(d, key, default) == IF key \in DOMAIN d THEN d[key] ELSE default

\* d[key] = v on a dict
Put(d, key, v) == [k \in DOMAIN d \cup {key} |-> IF k = key THEN v ELSE d[k]]

\* the result of an evaluation that may raise
Ok(v) == [ok |-> TRUE, val |-> v]
Exc(e) == [ok |-> FALSE, exc |-> e]

\* Python truthiness of a JSON value
Truthy(v) ==
    CASE v.t = "none" -> FALSE
      [] v.t = "int" -> v.i # 0
      [] v.t = "str" -> v.s # ""
      [] v.t = "list" -> v.l # <<>>
      [] v.t = "obj" -> DOMAIN v.f # {}

\* str(v) as an f-string renders it
Fmt(v) ==
    CASE v.t = "none" -> "None"
      [] v.t = "int" -> ToString(v.i)
      [] v.t = "str" -> v.s
      [] OTHER -> "?"

\* ";".join(l)
RECURSIVE Join(_)
Join(l) ==
    IF l = <<>> THEN ""
    ELSE IF Len(l) = 1 THEN l[1]
    ELSE l[1] \o ";" \o Join(Tail(l))

\* int(v): an int is kept, a decimal string is parsed, anything else raises
IntOf(v) ==
    CASE v.t = "int" -> Ok(v.i)
      [] v.t = "str" ->
            IF \E n \in 0..MaxParse : ToString(n) = v.s
            THEN Ok(CHOOSE n \in 0..MaxParse : ToString(n) = v.s)
            ELSE Exc("ValueError")
      [] OTHER -> Exc("TypeError")

----------------------------------------------------------------------------
(* Responses *)

NoResp == [status |-> 0, body |-> None]
NoCall == [fn |-> "none", arg |-> None]
NoTrip == EmptyDict

Response(status, body) == [status |-> status, body |-> body]

\* faulty variant: the except clause forgets the status code
ErrorResponseOk(e) == Response(200, PyDict([error |-> PyStr(e)]))

\* except Exception as e: return jsonify({"error": str(e)}), 500
ErrorResponse(e) == Response(500, PyDict([error |-> PyStr(e)]))

\* return jsonify({"error": "Failed to update itinerary"}), 400
FailedToUpdate == Response(400, PyDict([error |-> PyStr("Failed to update itinerary")]))

----------------------------------------------------------------------------
(* The completion provider: what chat_model.invoke can answer *)

LLMRaise == [k |-> "raise"]                 \* the call raises
LLMNoCall == [k |-> "none"]                 \* no function_call in the answer
LLMBadJson == [k |-> "badjson"]             \* arguments are not valid JSON
LLMArgs(f) == [k |-> "args", f |-> f]       \* arguments decode to the object f

ItineraryValues == {PyList(<<"Day 1">>), PyList(<<"Day 1", "Day 2">>)}
CostValues == {PyDict([total_trip_cost |-> PyStr("250")])}
TitleValues == {PyStr("Old Trip"), PyStr("Food Tour")}

Failures == {LLMRaise, LLMNoCall, LLMBadJson, LLMArgs(EmptyDict)}
ItineraryAnswers == Failures \cup {LLMArgs([itinerary |-> v]) : v \in ItineraryValues}
CostAnswers == Failures \cup {LLMArgs([itinerary_costs |-> v]) : v \in CostValues}
TitleAnswers == Failures \cup {LLMArgs([title |-> v]) : v \in TitleValues}

(* The image provider: what client.images.generate can answer *)
ImageAnswers == {[k |-> "raise"], [k |-> "empty"],
                 [k |-> "url", url |-> "https://img/1"]}

\* json.loads(response.additional_kwargs["function_call"]["arguments"])
json_loads(response) ==
    IF response.k = "badjson" THEN Exc("JSONDecodeError") ELSE Ok(response.f)

\* function_args[key]
Subscript(args, key) ==
    IF ~args.ok THEN args
    ELSE IF key \in DOMAIN args.val THEN Ok(args.val[key]) ELSE Exc("KeyError")

\* faulty variant: a missing function_call raises instead of giving []
populate_daily_activities_strict(response) ==
    IF response.k \in {"raise", "none"} THEN Exc("ProviderError")
    ELSE Subscript(json_loads(response), "itinerary")

\* faulty variant: a parse failure is swallowed and gives []
populate_daily_activities_lenient(response) ==
    IF response.k = "raise" THEN Exc("ProviderError")
    ELSE IF response.k \in {"none", "badjson"} THEN Ok(PyList(<<>>))
    ELSE Subscript(json_loads(response), "itinerary")

\* populate_daily_activities, from the provider's answer on
populate_daily_activities(response) ==
    IF response.k = "raise" THEN Exc("ProviderError")
    ELSE IF response.k = "none" THEN Ok(PyList(<<>>))
    ELSE Subscript(json_loads(response), "itinerary")

\* calculate_total_cost, from the provider's answer on
calculate_total_cost(response) ==
    IF response.k = "raise" THEN Exc("ProviderError")
    ELSE IF response.k = "none" THEN Ok(PyDict(EmptyDict))
    ELSE Subscript(json_loads(response), "itinerary_costs")

----------------------------------------------------------------------------
(* generate_itinerary *)

\* faulty variant: the theme is never put into the title
create_initial_itinerary_structure_plain(origin, days, destinations, budget, stayPref, currency, groupSize, comfortLevel, theme, additionalInfo) ==
    [title |-> PyStr(Fmt(days) \o "-Day Trip from " \o Fmt(origin)
                     \o " to " \o Fmt(destinations)),
     details |-> PyDict([budget |-> budget, currency |-> currency,
                         groupSize |-> groupSize, comfortLevel |-> comfortLevel,
                         StayPref |-> stayPref, theme |-> theme,
                         additionalInfo |-> additionalInfo])]

create_initial_itinerary_structure(origin, days, destinations, budget, stayPref, currency, groupSize, comfortLevel, theme, additionalInfo) ==
    [title |-> IF theme = PyStr("general")
               THEN PyStr(Fmt(days) \o "-Day Trip from " \o Fmt(origin)
                          \o " to " \o Fmt(destinations))
               ELSE PyStr(Fmt(days) \o "-Day " \o Fmt(theme) \o " Trip from "
                          \o Fmt(origin) \o " to " \o Fmt(destinations)),
     details |-> PyDict([budget |-> budget, currency |-> currency,
                         groupSize |-> groupSize, comfortLevel |-> comfortLevel,
                         StayPref |-> stayPref, theme |-> theme,
                         additionalInfo |-> additionalInfo])]

DefaultStayPref == PyStr("Doesn't matter, base on my budget and comfort level")

\* line 167: data.get("destinations", [])[0] if data.get("destinations") else None
FirstDestination(d) ==
    IF "destinations" \in DOMAIN d /\ Truthy(d["destinations"])
    THEN PyStr(Get(d, "destinations", PyList(<<>>)).l[1])
    ELSE None

\* line 169: ";".join(...) if len(data.get("destinations", [])) > 0 else ""
Destinations(d) ==
    LET v == Get(d, "destinations", PyList(<<>>)) IN
    IF v.t # "list" THEN Exc("TypeError")
    ELSE IF Len(v.l) > 0 THEN Ok(PyStr(Join(v.l))) ELSE Ok(PyStr(""))

\* lines 171-184: the trip_details dict, or the exception building it raises
TripDetails(d) ==
    LET dest == Destinations(d)
        days == IntOf(Get(d, "days", PyInt(DefaultDays)))
        groupSize == IntOf(Get(d, "groupSize", PyInt(DefaultGroupSize)))
    IN  IF ~dest.ok THEN dest
        ELSE IF ~days.ok THEN days
        ELSE IF ~groupSize.ok THEN groupSize
        ELSE Ok([origin |-> Get(d, "origin", PyStr("")),
                 destinations |-> dest.val,
                 budget |-> Get(d, "budget", PyStr("")),
                 days |-> PyInt(days.val),
                 currency |-> Get(d, "currency", PyStr("USD")),
                 groupSize |-> PyInt(groupSize.val),
                 comfortLevel |-> Get(d, "comfortLevel", PyStr("moderate")),
                 theme |-> Get(d, "theme", PyStr("general")),
                 additionalInfo |-> Get(d, "additionalInfo", PyStr("")),
                 stayPref |-> Get(d, "stayPref", DefaultStayPref)])

\* a request body: the dict of the keys that are present, or no dict at all
Absent == [t |-> "absent"]
DictOf(r) == [k \in {x \in DOMAIN r : r[x] # Absent} |-> r[k]]

OriginInputs == {Absent, PyStr("Boston")}
DestinationsInputs == {Absent, None, PyList(<<>>), PyList(<<"Tokyo">>),
                       PyList(<<"Tokyo", "Kyoto">>)}
DaysInputs == {Absent, None, PyInt(3), PyStr("3"), PyStr("abc")}
GroupSizeInputs == {Absent, PyInt(4), PyStr("x")}
ThemeInputs == {Absent, PyStr("general"), PyStr("Foodie")}
CurrencyInputs == {Absent, PyStr("EUR")}

GenerateBodies ==
    {None, PyList(<<>>)} \cup
    {PyDict(DictOf([origin |-> o, destinations |-> ds, days |-> d,
                    groupSize |-> g, theme |-> th, currency |-> c])) :
        o \in OriginInputs, ds \in DestinationsInputs, d \in DaysInputs,
        g \in GroupSizeInputs, th \in ThemeInputs, c \in CurrencyInputs}

Idle == pc = "idle"

\* the handler returns r
Return(r) ==
    /\ pc' = "done"
    /\ resp' = r
    /\ call' = NoCall

\* the external call c has answered with out
Logged(out) == Append(log, [fn |-> call.fn, arg |-> call.arg, out |-> out])

\* lines 163-198, up to the completion call of populate_daily_activities
GenerateStart(body) ==
    /\ Idle
    /\ handler' = "generate"
    /\ data' = body
    /\ log' = <<>>
    /\ chain' = 0
    /\ IF body.t # "obj"
       THEN /\ Return(ErrorResponse("AttributeError"))
            /\ first_destination' = None
            /\ trip_details' = NoTrip
            /\ current_itinerary' = None
       ELSE LET td == TripDetails(body.f) IN
            /\ first_destination' = FirstDestination(body.f)
            /\ IF ~td.ok
               THEN /\ Return(ErrorResponse(td.exc))
                    /\ trip_details' = NoTrip
                    /\ current_itinerary' = None
               ELSE /\ trip_details' = td.val
                    /\ current_itinerary' = PyDict(create_initial_itinerary_structure(
                            td.val.origin, td.val.days, td.val.destinations,
                            td.val.budget, td.val.stayPref, td.val.currency,
                            td.val.groupSize, td.val.comfortLevel, td.val.theme,
                            td.val.additionalInfo))
                    /\ pc' = "gen_itinerary"
                    /\ call' = [fn |-> "itinerary", arg |-> None]
                    /\ resp' = NoResp

\* line 201: populate_daily_activities returns; line 202 issues the cost call
GenerateItinerary(answer) ==
    /\ pc = "gen_itinerary"
    /\ log' = Logged(answer)
    /\ LET r == populate_daily_activities(answer) IN
       IF ~r.ok
       THEN /\ Return(ErrorResponse(r.exc))
            /\ UNCHANGED current_itinerary
       ELSE /\ current_itinerary' = PyDict(Put(current_itinerary.f, "itinerary", r.val))
            /\ pc' = "gen_cost"
            /\ call' = [fn |-> "cost", arg |-> current_itinerary'.f["itinerary"]]
            /\ UNCHANGED resp
    /\ UNCHANGED <<handler, data, first_destination, trip_details, chain>>

\* line 202: calculate_total_cost returns; lines 204-218
GenerateCost(answer) ==
    /\ pc = "gen_cost"
    /\ log' = Logged(answer)
    /\ LET r == calculate_total_cost(answer) IN
       IF ~r.ok
       THEN /\ Return(ErrorResponse(r.exc))
            /\ UNCHANGED current_itinerary
       ELSE /\ current_itinerary' = PyDict(Put(current_itinerary.f, "itinerary_costs", r.val))
            /\ IF Truthy(first_destination)
               THEN /\ pc' = "gen_image"
                    /\ call' = [fn |-> "image", arg |-> first_destination]
                    /\ UNCHANGED resp
               ELSE Return(Response(200, current_itinerary'))
    /\ UNCHANGED <<handler, data, first_destination, trip_details, chain>>

\* lines 208-218: client.images.generate returns
GenerateImage(answer) ==
    /\ pc = "gen_image"
    /\ log' = Logged(answer)
    /\ IF answer.k = "raise"
       THEN /\ Return(ErrorResponse("ProviderError"))
            /\ UNCHANGED current_itinerary
       ELSE IF answer.k = "empty"
       THEN /\ Return(ErrorResponse("IndexError"))
            /\ UNCHANGED current_itinerary
       ELSE /\ current_itinerary' = PyDict(Put(current_itinerary.f, "image", PyStr(answer.url)))
            /\ Return(Response(200, current_itinerary'))
    /\ UNCHANGED <<handler, data, first_destination, trip_details, chain>>

----------------------------------------------------------------------------
(* update_itinerary *)

OldDocument ==
    PyDict([title |-> PyStr("Old Trip"),
            details |-> PyDict([theme |-> PyStr("general")]),
            itinerary |-> PyList(<<"Day 1">>),
            itinerary_costs |-> PyDict([total_trip_cost |-> PyStr("100")]),
            image |-> PyStr("https://img/0")])
AnnotatedDocument ==
    PyDict([title |-> PyStr("Old Trip"),
            itinerary |-> PyList(<<"Day 1", "Day 2">>),
            notes |-> PyStr("window seat"),
            error |-> PyStr("stale")])
UntitledDocument == PyDict([itinerary |-> PyList(<<"Day 1">>)])

DocumentInputs == {Absent, None, PyList(<<>>), OldDocument, AnnotatedDocument,
                   UntitledDocument}
SuggestionInputs == {PyStr("more food")}

UpdateBodies ==
    {None} \cup
    {PyDict(DictOf([current_itinerary |-> d, user_suggestion |-> s])) :
        d \in DocumentInputs, s \in SuggestionInputs}

\* line 228: data.get("current_itinerary", {}), as it was submitted
Submitted == Get(data.f, "current_itinerary", PyDict(EmptyDict))

\* faulty variant: a missing function_call degrades to an empty itinerary, as in generate
update_itinerary_call_degrading(cur, response) ==
    IF response.k = "raise" THEN [next |-> "raise", exc |-> "ProviderError"]
    ELSE LET args == IF response.k = "none" THEN Ok(PyList(<<>>))
                     ELSE Subscript(json_loads(response), "itinerary") IN
         IF ~args.ok THEN [next |-> "raise", exc |-> args.exc]
         ELSE IF cur.t # "obj" THEN [next |-> "raise", exc |-> "TypeError"]
         ELSE [next |-> "title", doc |-> PyDict(Put(cur.f, "itinerary", args.val))]

\* lines 276-286 and 329: the update call has answered
update_itinerary_call(cur, response) ==
    IF response.k = "raise" THEN [next |-> "raise", exc |-> "ProviderError"]
    ELSE IF response.k = "none" THEN [next |-> "failed"]
    ELSE LET args == Subscript(json_loads(response), "itinerary") IN
         IF ~args.ok THEN [next |-> "raise", exc |-> args.exc]
         ELSE IF cur.t # "obj" THEN [next |-> "raise", exc |-> "TypeError"]
         ELSE [next |-> "title", doc |-> PyDict(Put(cur.f, "itinerary", args.val))]

\* faulty variant: without a function_call the title is reset to the empty string
update_title_resetting(cur, response) ==
    IF response.k = "raise" THEN Exc("ProviderError")
    ELSE IF response.k = "none" THEN Ok(PyDict(Put(cur.f, "title", PyStr(""))))
    ELSE LET t == Subscript(json_loads(response), "title") IN
         IF ~t.ok THEN t ELSE Ok(PyDict(Put(cur.f, "title", t.val)))

\* lines 313-321: the title call has answered
update_title(cur, response) ==
    IF response.k = "raise" THEN Exc("ProviderError")
    ELSE IF response.k = "none" THEN Ok(cur)
    ELSE LET t == Subscript(json_loads(response), "title") IN
         IF ~t.ok THEN t ELSE Ok(PyDict(Put(cur.f, "title", t.val)))

\* faulty variant: the costs are computed from the itinerary that was submitted
update_cost_arg_stale(cur) == Get(Submitted.f, "itinerary", PyList(<<>>))

\* line 324: the argument of calculate_total_cost
update_cost_arg(cur) == cur.f["itinerary"]

\* faulty variant: the response is rebuilt from the fields the handler knows
update_response_rebuilt(cur) ==
    Response(200, PyDict([k \in DOMAIN cur.f \cap {"title", "details", "itinerary", "itinerary_costs"} |-> cur.f[k]]))

\* line 327: return jsonify(current_itinerary)
update_response(cur) == Response(200, cur)

\* lines 226-280, up to the completion call of the update
UpdateBegin(body, fed) ==
    /\ handler' = "update"
    /\ data' = body
    /\ log' = <<>>
    /\ chain' = IF fed THEN chain + 1 ELSE 1
    /\ first_destination' = None
    /\ trip_details' = NoTrip
    /\ IF body.t # "obj"
       THEN /\ Return(ErrorResponse("AttributeError"))
            /\ current_itinerary' = None
       ELSE /\ current_itinerary' = Get(body.f, "current_itinerary", PyDict(EmptyDict))
            /\ pc' = "upd_itinerary"
            /\ call' = [fn |-> "update", arg |-> current_itinerary']
            /\ resp' = NoResp

\* a client submits any document
UpdateStart(body) ==
    /\ Idle
    /\ UpdateBegin(body, FALSE)

\* a client submits the document of the response it has just received
UpdateFromPrevious(suggestion) ==
    /\ pc = "done"
    /\ resp.status = 200
    /\ chain < MaxChain
    /\ UpdateBegin(PyDict([current_itinerary |-> resp.body,
                           user_suggestion |-> suggestion]), TRUE)

\* lines 276-317: the update call returns; the title call is issued
UpdateItinerary(answer) ==
    /\ pc = "upd_itinerary"
    /\ log' = Logged(answer)
    /\ LET r == update_itinerary_call(current_itinerary, answer) IN
       IF r.next = "raise"
       THEN /\ Return(ErrorResponse(r.exc))
            /\ UNCHANGED current_itinerary
       ELSE IF r.next = "failed"
       THEN /\ Return(FailedToUpdate)
            /\ UNCHANGED current_itinerary
       ELSE /\ current_itinerary' = r.doc
            /\ pc' = "upd_title"
            /\ call' = [fn |-> "title", arg |-> Get(r.doc.f, "title", PyStr(""))]
            /\ UNCHANGED resp
    /\ UNCHANGED <<handler, data, first_destination, trip_details, chain>>

\* lines 313-324: the title call returns; the cost call is issued
UpdateTitle(answer) ==
    /\ pc = "upd_title"
    /\ log' = Logged(answer)
    /\ LET r == update_title(current_itinerary, answer) IN
       IF ~r.ok
       THEN /\ Return(ErrorResponse(r.exc))
            /\ UNCHANGED current_itinerary
       ELSE /\ current_itinerary' = r.val
            /\ pc' = "upd_cost"
            /\ call' = [fn |-> "cost", arg |-> update_cost_arg(r.val)]
            /\ UNCHANGED resp
    /\ UNCHANGED <<handler, data, first_destination, trip_details, chain>>

\* lines 324-327: calculate_total_cost returns
UpdateCost(answer) ==
    /\ pc = "upd_cost"
    /\ log' = Logged(answer)
    /\ LET r == calculate_total_cost(answer) IN
       IF ~r.ok
       THEN /\ Return(ErrorResponse(r.exc))
            /\ UNCHANGED current_itinerary
       ELSE /\ current_itinerary' = PyDict(Put(current_itinerary.f, "itinerary_costs", r.val))
            /\ Return(update_response(current_itinerary'))
    /\ UNCHANGED <<handler, data, first_destination, trip_details, chain>>

----------------------------------------------------------------------------
(* The service *)

\* the response has been delivered; the worker waits for the next request
Finish ==
    /\ pc = "done"
    /\ pc' = "idle"
    /\ handler' = "none"
    /\ data' = None
    /\ first_destination' = None
    /\ trip_details' = NoTrip
    /\ current_itinerary' = None
    /\ call' = NoCall
    /\ log' = <<>>
    /\ resp' = NoResp
    /\ chain' = 0

Init ==
    /\ pc = "idle"
    /\ handler = "none"
    /\ data = None
    /\ first_destination = None
    /\ trip_details = NoTrip
    /\ current_itinerary = None
    /\ call = NoCall
    /\ log = <<>>
    /\ resp = NoResp
    /\ chain = 0

Next ==
    \/ \E body \in GenerateBodies : GenerateStart(body)
    \/ \E answer \in ItineraryAnswers : GenerateItinerary(answer)
    \/ \E answer \in CostAnswers : GenerateCost(answer)
    \/ \E answer \in ImageAnswers : GenerateImage(answer)
    \/ \E body \in UpdateBodies : UpdateStart(body)
    \/ \E suggestion \in SuggestionInputs : UpdateFromPrevious(suggestion)
    \/ \E answer \in ItineraryAnswers : UpdateItinerary(answer)
    \/ \E answer \in TitleAnswers : UpdateTitle(answer)
    \/ \E answer \in CostAnswers : UpdateCost(answer)
    \/ Finish

Spec == Init /\ [][Next]_vars

----------------------------------------------------------------------------
(* Vocabulary of the properties *)

Done == pc = "done"
Success == resp.status = 200
Body == resp.body.f
ErrorObject ==
    /\ resp.status \in {400, 500}
    /\ resp.body.t = "obj"
    /\ DOMAIN Body = {"error"}
    /\ Body["error"].t = "str"
    /\ Body["error"].s # ""
\* what a completion answer yields when it carries no function_call, or key
Yield(out, key, empty) == IF out.k = "none" THEN empty ELSE out.f[key]
\* the answer is one the call site resolves without raising
Usable(out, key) == out.k = "none" \/ (out.k = "args" /\ key \in DOMAIN out.f)
ImageFailed(out) == out.k \in {"raise", "empty"}
Mutated == {"itinerary", "title", "itinerary_costs"}

----------------------------------------------------------------------------
(* C1: in generate_itinerary a failed image call (the provider raises, or   *)
(* returns no image) never aborts the response: the response is the success *)
(* document with title, details, itinerary and itinerary_costs and without  *)
(* an image key; with no destination the image call is not made and image   *)
(* is absent.  The code lets the failure reach the handler's except clause. *)
C1_ImageFailureIsolated ==
    (handler = "generate" /\ Done /\ Len(log) >= 2
        /\ Usable(log[1].out, "itinerary") /\ Usable(log[2].out, "itinerary_costs"))
    => /\ (Len(log) = 3 /\ ImageFailed(log[3].out))
            => /\ Success
               /\ DOMAIN Body = {"title", "details", "itinerary", "itinerary_costs"}
       /\ ~Truthy(first_destination)
            => /\ Len(log) = 2
               /\ Success
               /\ "image" \notin DOMAIN Body

(* C2, as stated: when the itinerary call carries no function_call, the      *)
(* response is a success with an empty itinerary and empty itinerary_costs,  *)
(* whatever the cost call answers.                                           *)
C2_EmptyItineraryAlwaysEmptyCosts ==
    (handler = "generate" /\ Done /\ Len(log) >= 1 /\ log[1].out.k = "none")
    => /\ Success
       /\ Body["itinerary"] = PyList(<<>>)
       /\ Body["itinerary_costs"] = PyDict(EmptyDict)

(* C2, amended: when the itinerary call carries no function_call, the        *)
(* handler does not fail there: itinerary is the empty sequence and the cost *)
(* call is issued on it; the response is a success exactly when neither the  *)
(* cost call nor the image call fails, and then itinerary is empty and       *)
(* itinerary_costs is what the cost call yielded, the empty mapping when it  *)
(* too carried no function_call.                                             *)
C2_EmptyItineraryDegrades ==
    (handler = "generate" /\ Len(log) >= 1 /\ log[1].out.k = "none")
    => /\ Len(log) = 1 => (pc = "gen_cost" /\ call = [fn |-> "cost", arg |-> PyList(<<>>)])
       /\ current_itinerary.f["itinerary"] = PyList(<<>>)
       /\ Len(log) >= 2 => (log[2].fn = "cost" /\ log[2].arg = PyList(<<>>))
       /\ Done =>
            /\ Success <=> /\ Usable(log[2].out, "itinerary_costs")
                           /\ Len(log) = 3 => ~ImageFailed(log[3].out)
            /\ Success =>
                /\ Body["itinerary"] = PyList(<<>>)
                /\ Body["itinerary_costs"] =
                        Yield(log[2].out, "itinerary_costs", PyDict(EmptyDict))
                /\ log[2].out.k = "none" => Body["itinerary_costs"] = PyDict(EmptyDict)

C2_Witness ==
    /\ handler = "generate" /\ Done /\ Success
    /\ log[1].out.k = "none" /\ log[2].out.k = "none"
    /\ Body["itinerary"] = PyList(<<>>)

(* C3: in update_itinerary, when the update call carries no function_call,   *)
(* the response is an error object with a non-success status, the submitted  *)
(* document keeps every field, and neither the title call nor the cost call  *)
(* is issued.                                                                *)
C3_UpdateFailsVisibly ==
    (handler = "update" /\ Len(log) >= 1 /\ log[1].out.k = "none")
    => /\ Done
       /\ Len(log) = 1
       /\ call = NoCall
       /\ ~Success
       /\ ErrorObject
       /\ current_itinerary = Submitted

C3_Witness ==
    /\ handler = "update" /\ Done
    /\ Len(log) = 1 /\ log[1].out.k = "none"
    /\ Submitted = OldDocument

(* C4: in every successful response of either handler, itinerary_costs is   *)
(* the yield of the one cost call of the request, and the argument of that   *)
(* call is the itinerary of the same response: the itinerary the completion  *)
(* call of this request yielded, never the one that was submitted.           *)
C4_CostsFromLatestItinerary ==
    (Done /\ Success)
    => LET costs == {i \in 1..Len(log) : log[i].fn = "cost"} IN
       /\ Cardinality(costs) = 1
       /\ \A i \in costs :
            /\ log[i].arg = Body["itinerary"]
            /\ log[i].arg = Yield(log[1].out, "itinerary", PyList(<<>>))
            /\ Body["itinerary_costs"] =
                    Yield(log[i].out, "itinerary_costs", PyDict(EmptyDict))

C4_Witness ==
    /\ handler = "update" /\ Done /\ Success
    /\ chain >= 2
    /\ Body["itinerary"] # Submitted.f["itinerary"]

C6_SuccessNeverCarriesError ==
    Done =>
        \/ Success /\ resp.body.t = "obj" /\ "error" \notin DOMAIN Body
        \/ ErrorObject

(* C6, amended: every response is either a success carrying a document to    *)
(* which the handler has added no error field (an update returns an error    *)
(* key only when the submitted document had it, with the submitted value),   *)
(* or a non-success status carrying an error object with a message.          *)
C6_HandlerNeverAddsError ==
    Done =>
        \/ /\ Success
           /\ resp.body.t = "obj"
           /\ "error" \in DOMAIN Body =>
                /\ handler = "update"
                /\ "error" \in DOMAIN Submitted.f
                /\ Body["error"] = Submitted.f["error"]
        \/ ErrorObject

C6_Witness ==
    /\ handler = "update" /\ Done /\ Success
    /\ "error" \in DOMAIN Body

(* C7: a function_call whose arguments are not valid JSON, in any of the     *)
(* completion calls, ends the request there in an error response; it never   *)
(* resolves to an empty itinerary, empty costs or a retained title.          *)
C7_ParseFailureIsHard ==
    \A i \in 1..Len(log) :
        log[i].out.k = "badjson" =>
            /\ i = Len(log)
            /\ Done
            /\ ~Success
            /\ ErrorObject

C7_Witness ==
    /\ handler = "update" /\ Done
    /\ Len(log) = 2 /\ log[2].fn = "title" /\ log[2].out.k = "badjson"

(* C8: in generate_itinerary a missing or invalid trip parameter is replaced *)
(* by its default and the request goes on to the completion calls: no        *)
(* request whose body is an object ends in an error before the first call.   *)
(* The code raises on a days or groupSize that int() rejects and on null     *)
(* destinations.                                                             *)
C8_InvalidParametersDefaulted ==
    (handler = "generate" /\ data.t = "obj")
    => /\ ~(Done /\ log = <<>>)
       /\ DOMAIN trip_details # {}
       /\ ("days" \notin DOMAIN data.f \/ ~IntOf(data.f["days"]).ok)
            => trip_details.days = PyInt(DefaultDays)
       /\ ("groupSize" \notin DOMAIN data.f \/ ~IntOf(data.f["groupSize"]).ok)
            => trip_details.groupSize = PyInt(DefaultGroupSize)

(* C9: a successful update changes only itinerary, title and itinerary_costs *)
(* of the submitted document: every other key of it is in the response with  *)
(* the value submitted, and the response has no further key.                 *)
C9_UpdateFrame ==
    (handler = "update" /\ Done /\ Success)
    => /\ \A k \in DOMAIN Submitted.f \ Mutated :
            k \in DOMAIN Body /\ Body[k] = Submitted.f[k]
       /\ DOMAIN Body \subseteq DOMAIN Submitted.f \cup Mutated

C9_Witness ==
    /\ handler = "update" /\ Done /\ Success
    /\ {"details", "image"} \subseteq DOMAIN Submitted.f
    /\ Body["itinerary"] # Submitted.f["itinerary"]

(* C10: the title of a generated document is "<days>-Day Trip from <origin>  *)
(* to <destinations>" when the theme is "general" (given or defaulted) and   *)
(* "<days>-Day <theme> Trip from <origin> to <destinations>" otherwise;      *)
(* origin Boston, destinations [Tokyo], days 3 give                          *)
(* "3-Day Trip from Boston to Tokyo".                                        *)
C10_TitleFormat ==
    (handler = "generate" /\ DOMAIN trip_details # {})
    => LET title == current_itinerary.f["title"].s
           n == ToString(trip_details.days.i)
           o == trip_details.origin.s
           ds == trip_details.destinations.s
           th == trip_details.theme.s
       IN
       /\ th = "general" => title = n \o "-Day Trip from " \o o \o " to " \o ds
       /\ th # "general" =>
            title = n \o "-Day " \o th \o " Trip from " \o o \o " to " \o ds
       /\ "theme" \notin DOMAIN data.f => th = "general"
       /\ data = PyDict([origin |-> PyStr("Boston"), destinations |-> PyList(<<"Tokyo">>),
                         days |-> PyInt(3)])
            => title = "3-Day Trip from Boston to Tokyo"
       /\ data = PyDict([origin |-> PyStr("Boston"), days |-> PyStr("3"),
                         destinations |-> PyList(<<"Tokyo", "Kyoto">>),
                         theme |-> PyStr("Foodie")])
            => title = "3-Day Foodie Trip from Boston to Tokyo;Kyoto"
       /\ (Done /\ Success) => Body["title"].s = title

C10_Witness ==
    /\ handler = "generate" /\ Done /\ Success
    /\ data = PyDict([origin |-> PyStr("Boston"), destinations |-> PyList(<<"Tokyo">>),
                      days |-> PyInt(3)])
    /\ Body["title"] = PyStr("3-Day Trip from Boston to Tokyo")

====
